---- MODULE Spec2Model ----
(***************************************************************************)
(* A model of the ERPlora messaging module: the Message, MessageTemplate,  *)
(* Campaign and MessagingSettings tables and the request handlers of       *)
(* views.py that read and write them.                                      *)
(*                                                                         *)
(* A table is a sequence of rows; a row's primary key is its position     *)
(* (rows are never physically removed by this module: delete() is the     *)
(* logical delete of HubBaseModel).  A nullable column holds NULL or a     *)
(* value; time is an input of each request (the value timezone.now()      *)
(* returns), drawn from Times.  A handler runs as one step where requests  *)
(* are served one at a time; inflight holds, per worker, the request a    *)
(* worker is in the middle of where requests are served concurrently.     *)
(***************************************************************************)
EXTENDS Naturals, Sequences, FiniteSets

VARIABLES messages, templates, campaigns, settings, response, inflight

vars == <<messages, templates, campaigns, settings, response, inflight>>

----------------------------------------------------------------------------
(* Bounds of the model *)

MaxMessages == 1

MaxTime == 1

MaxCampaigns == 1

(* Values *)

NULL == 0

Hubs == {"h1", "h2"}

Times == 1..MaxTime

PyNone == "<None>"

ValidChannels == {"whatsapp", "sms", "email"}

MessageStatuses == {"queued", "sent", "delivered", "failed", "read"}

----------------------------------------------------------------------------
(* HubBaseModel managers: objects hides logically deleted rows, all_objects *)
(* shows every row.                                                         *)

all_objects(table) == 1..Len(table)

(* A variant of the default manager that hides nothing. *)
objects_unfiltered(table) == 1..Len(table)

objects(table) == {pk \in 1..Len(table) : ~table[pk].is_deleted}

(* A variant that writes every column of the instance. *)
save_instance(row, instance, fields) == instance

(* Model.save(update_fields=fields): the named columns of the stored row    *)
(* take the instance's values, every other column keeps the stored value.   *)
save(row, instance, fields) ==
    [f \in DOMAIN row |-> IF f \in fields THEN instance[f] ELSE row[f]]

----------------------------------------------------------------------------
(* Message *)

(* A variant whose rows carry a provider's identifier from the start. *)
Message_identified(hub, status, template_id) ==
    [hub_id |-> hub, status |-> status, template_id |-> template_id,
     sent_at |-> NULL, delivered_at |-> NULL, read_at |-> NULL,
     error_message |-> "", external_id |-> "X", is_deleted |-> FALSE]

(* A Message row, with the columns the handlers' control flow reads or      *)
(* writes after creation.  The text columns written once by create()        *)
(* (channel, recipient, subject, body, metadata) are validated by the       *)
(* handlers below and not carried in the row.                               *)
(* The audit columns of HubBaseModel (created_at, updated_at) are not kept *)
(* in the rows; update_fields names updated_at as the code does.           *)
Message(hub, status, template_id) ==
    [hub_id |-> hub, status |-> status, template_id |-> template_id,
     sent_at |-> NULL, delivered_at |-> NULL, read_at |-> NULL,
     error_message |-> "", external_id |-> "", is_deleted |-> FALSE]

mark_sent_fields == {"status", "sent_at", "updated_at"}

mark_sent(self, now) ==
    [self EXCEPT !.status = "sent", !.sent_at = now]

(* A variant that names the status alone. *)
mark_delivered_status_only == {"status", "updated_at"}

mark_delivered_fields == {"status", "delivered_at", "updated_at"}

(* A variant that moves only a sent message on; the webhook properties   *)
(* tell it from mark_delivered.                                          *)
mark_delivered_from_sent(self, now) ==
    IF self.status = "sent"
    THEN [self EXCEPT !.status = "delivered", !.delivered_at = now]
    ELSE self

mark_delivered(self, now) ==
    [self EXCEPT !.status = "delivered", !.delivered_at = now]

(* A variant that names every column the mark operations write. *)
mark_read_every_field ==
    {"status", "sent_at", "delivered_at", "read_at", "error_message", "updated_at"}

mark_read_fields == {"status", "read_at", "updated_at"}

(* A variant that marks only a delivered message read. *)
mark_read_from_delivered(self, now) ==
    IF self.status = "delivered"
    THEN [self EXCEPT !.status = "read", !.read_at = now]
    ELSE self

mark_read(self, now) ==
    [self EXCEPT !.status = "read", !.read_at = now]

mark_failed_fields == {"status", "error_message", "updated_at"}

mark_failed(self, error) ==
    [self EXCEPT !.status = "failed", !.error_message = error]

----------------------------------------------------------------------------
(* MessageTemplate *)

MessageTemplate(hub, name, is_active, is_system) ==
    [hub_id |-> hub, name |-> name, is_active |-> is_active,
     is_system |-> is_system, is_deleted |-> FALSE]

(* A foreign key column accepts NULL or the key of a stored row (the        *)
(* database constraint looks at the table, logically deleted rows included).*)
ForeignKeyOk(table, ref) == ref = NULL \/ ref \in all_objects(table)

(* The references a request may carry: none, each stored row, one unknown. *)
Refs(table) == 0..(Len(table) + 1)

----------------------------------------------------------------------------
(* Requests of api_send: a body that is not JSON, a JSON document that is  *)
(* not an object, or an object.  A field of the object is Absent or a      *)
(* string; template_id is NULL (absent or null) or a key.                   *)

Absent == "<absent>"

(* dict.get(key, default) *)
Get(data, key, default) == IF data[key] = Absent THEN default ELSE data[key]

(* Python truthiness of a string-or-None value: `not v` *)
Not(v) == v = PyNone \/ v = ""

SendObjects(refs) ==
    [channel : {Absent, ""} \cup ValidChannels \cup {"telegram"},
     recipient_contact : {Absent, "+34600"},
     body : {Absent, "hi"},
     template_id : refs]

SendRequests(refs) ==
    {[kind |-> "invalid"], [kind |-> "nonobject"]}
        \cup {[kind |-> "object", data |-> d] : d \in SendObjects(refs)}

Responded(op, hub, request, code, body) ==
    response' = [op |-> op, hub |-> hub, request |-> request,
                 code |-> code, body |-> body]

api_send_required(channel, recipient_contact, body) ==
    Not(channel) \/ Not(recipient_contact) \/ Not(body)

(* A variant without the channel check. *)
api_send_channel_unchecked(channel) == FALSE

api_send_channel(channel) == channel \notin ValidChannels

api_send(hub, request, now) ==
    /\ UNCHANGED <<templates, campaigns, settings, inflight>>
    /\ IF request.kind = "invalid"
       THEN /\ Responded("api_send", hub, request, 400,
                         [success |-> FALSE, error |-> "Invalid JSON"])
            /\ UNCHANGED messages
       ELSE IF request.kind = "nonobject"
       THEN \* data.get raises AttributeError: an unhandled exception
            /\ Responded("api_send", hub, request, 500, [error |-> "AttributeError"])
            /\ UNCHANGED messages
       ELSE
         LET data == request.data
             channel == Get(data, "channel", PyNone)
             recipient_contact == Get(data, "recipient_contact", "")
             body == Get(data, "body", "")
             template_id == data.template_id
         IN
         IF api_send_required(channel, recipient_contact, body)
         THEN /\ Responded("api_send", hub, request, 400,
                   [success |-> FALSE,
                    error |-> "channel, recipient_contact, and body are required"])
              /\ UNCHANGED messages
         ELSE IF api_send_channel(channel)
         THEN /\ Responded("api_send", hub, request, 400,
                   [success |-> FALSE,
                    error |-> "Invalid channel. Must be whatsapp, sms, or email"])
              /\ UNCHANGED messages
         ELSE IF ~ForeignKeyOk(templates, template_id)
         THEN \* Message.objects.create raises IntegrityError: unhandled
              /\ Responded("api_send", hub, request, 500, [error |-> "IntegrityError"])
              /\ UNCHANGED messages
         ELSE
           LET created == Message(hub, "queued", template_id)
               msg == mark_sent(created, now)
               pk == Len(messages) + 1
           IN
           /\ Len(messages) < MaxMessages
           /\ messages' = Append(messages, save(created, msg, mark_sent_fields))
           /\ Responded("api_send", hub, request, 200,
                        [success |-> TRUE, message_id |-> pk, status |-> msg.status])

----------------------------------------------------------------------------
(* The compose handler.  MessageForm validates the posted fields against   *)
(* the model: channel is one of the Message choices, recipient_contact and *)
(* body are required, template is empty or a template of the default       *)
(* manager.                                                                 *)

ComposeForms(refs) ==
    [channel : {""} \cup ValidChannels \cup {"telegram"},
     recipient_contact : {"", "+34600"},
     body : {"", "hi"},
     template : refs]

ComposeRequests(refs) ==
    {[method |-> "GET"]}
        \cup {[method |-> "POST", form |-> f] : f \in ComposeForms(refs)}

MessageForm_is_valid(form) ==
    /\ form.channel \in ValidChannels
    /\ form.recipient_contact # ""
    /\ form.body # ""
    /\ form.template = NULL \/ form.template \in objects(templates)

(* Message.objects.filter(hub_id=hub, is_deleted=False) *)
MessagesOf(table, hub) ==
    {pk \in objects(table) : table[pk].hub_id = hub /\ ~table[pk].is_deleted}

send_message(hub, request, now) ==
    /\ UNCHANGED <<templates, campaigns, settings, inflight>>
    /\ IF request.method = "POST" /\ MessageForm_is_valid(request.form)
       THEN
         LET form == request.form
             created == Message(hub, "queued", form.template)
             msg == mark_sent(created, now)
         IN
         /\ Len(messages) < MaxMessages
         /\ messages' = Append(messages, save(created, msg, mark_sent_fields))
         /\ Responded("send_message", hub, request, 200,
                      [notice |-> "success",
                       messages_list |-> MessagesOf(messages', hub)])
       ELSE
         /\ UNCHANGED messages
         /\ Responded("send_message", hub, request, 200,
                      [notice |-> IF request.method = "POST" THEN "error" ELSE "",
                       messages_list |-> {}])

----------------------------------------------------------------------------
(* The send specification: an empty message log and one stored template;   *)
(* requests reach api_send and the compose handler one at a time.          *)

(* No worker is in the middle of a request. *)
NoneInFlight == <<>>

NoResponse ==
    [op |-> "", hub |-> "", request |-> [kind |-> ""], code |-> 0, body |-> [notice |-> ""]]

InitSend ==
    /\ messages = <<>>
    /\ templates = <<MessageTemplate("h1", "Reminder", TRUE, FALSE)>>
    /\ campaigns = <<>>
    /\ settings = <<>>
    /\ response = NoResponse
    /\ inflight = NoneInFlight

NextSend ==
    \/ \E hub \in Hubs, now \in Times :
         \E request \in SendRequests(Refs(templates)) : api_send(hub, request, now)
    \/ \E hub \in Hubs, now \in Times :
         \E request \in ComposeRequests(Refs(templates)) : send_message(hub, request, now)

SpecSend == InitSend /\ [][NextSend]_vars

----------------------------------------------------------------------------
(* The delivery webhook.  It carries no session: the lookup is by          *)
(* external_id alone, through the default manager.                          *)

WebhookObjects ==
    [external_id : {Absent, "", "X", "Z"},
     status : {Absent, "delivered", "read", "sent", "bounced"},
     error : {Absent}]
      \cup
    [external_id : {Absent, "", "X", "Z"},
     status : {"failed"},
     error : {Absent, "E"}]

WebhookRequests ==
    {[kind |-> "invalid"], [kind |-> "nonobject"]}
        \cup {[kind |-> "object", data |-> d] : d \in WebhookObjects}

(* A variant that requires external_id alone. *)
api_webhook_required_id_only(external_id, status) == Not(external_id)

api_webhook_required(external_id, status) == Not(external_id) \/ Not(status)

(* Message.objects.filter(external_id=external_id) *)
(* A variant that ignores the external_id. *)
api_webhook_lookup_any(table, external_id) == objects(table)

api_webhook_lookup(table, external_id) ==
    {pk \in objects(table) : table[pk].external_id = external_id}

(* The row the webhook writes for a status, given the loaded instance.     *)
(* A variant whose last branch takes every other status for sent. *)
api_webhook_apply_else_sent(msg, status, error_message, now) ==
    IF status = "delivered"
    THEN save(msg, mark_delivered(msg, now), mark_delivered_fields)
    ELSE IF status = "read"
    THEN save(msg, mark_read(msg, now), mark_read_fields)
    ELSE IF status = "failed"
    THEN save(msg, mark_failed(msg, error_message), mark_failed_fields)
    ELSE save(msg, mark_sent(msg, now), mark_sent_fields)

api_webhook_apply(msg, status, error_message, now) ==
    IF status = "delivered"
    THEN save(msg, mark_delivered(msg, now), mark_delivered_fields)
    ELSE IF status = "read"
    THEN save(msg, mark_read(msg, now), mark_read_fields)
    ELSE IF status = "failed"
    THEN save(msg, mark_failed(msg, error_message), mark_failed_fields)
    ELSE IF status = "sent"
    THEN save(msg, mark_sent(msg, now), mark_sent_fields)
    ELSE msg

api_webhook(request, now) ==
    /\ UNCHANGED <<templates, campaigns, settings, inflight>>
    /\ IF request.kind = "invalid"
       THEN /\ Responded("api_webhook", "", request, 400, [error |-> "Invalid JSON"])
            /\ UNCHANGED messages
       ELSE IF request.kind = "nonobject"
       THEN \* data.get raises AttributeError: an unhandled exception
            /\ Responded("api_webhook", "", request, 500, [error |-> "AttributeError"])
            /\ UNCHANGED messages
       ELSE
         LET data == request.data
             external_id == Get(data, "external_id", "")
             status == Get(data, "status", "")
             error_message == Get(data, "error", "")
             found == api_webhook_lookup(messages, external_id)
         IN
         IF api_webhook_required(external_id, status)
         THEN /\ Responded("api_webhook", "", request, 400,
                           [error |-> "external_id and status required"])
              /\ UNCHANGED messages
         ELSE IF found = {}
         THEN \* Message.DoesNotExist
              /\ Responded("api_webhook", "", request, 404,
                           [error |-> "Message not found"])
              /\ UNCHANGED messages
         ELSE IF Cardinality(found) > 1
         THEN \* get() raises MultipleObjectsReturned: an unhandled exception
              /\ Responded("api_webhook", "", request, 500,
                           [error |-> "MultipleObjectsReturned"])
              /\ UNCHANGED messages
         ELSE
           LET pk == CHOOSE k \in found : TRUE
           IN
           /\ messages' = [messages EXCEPT
                  ![pk] = api_webhook_apply(messages[pk], status, error_message, now)]
           /\ Responded("api_webhook", "", request, 200,
                        [success |-> TRUE, message_id |-> pk])

----------------------------------------------------------------------------
(* The webhook specification: the log holds one or two messages recorded   *)
(* earlier (by the provider integration, which sets external_id), the      *)
(* first of hub h1 and the second of hub h2; webhook requests arrive one   *)
(* at a time.                                                               *)

LoggedMessages(hub) ==
    {[Message(hub, st, NULL) EXCEPT !.external_id = ext, !.is_deleted = del] :
        st \in {"queued", "sent"}, ext \in {"", "X"}, del \in BOOLEAN}

InitWebhook ==
    /\ messages \in {<<a>> : a \in LoggedMessages("h1")}
                    \cup {<<a, b>> : a \in LoggedMessages("h1"), b \in LoggedMessages("h2")}
    /\ templates = <<>>
    /\ campaigns = <<>>
    /\ settings = <<>>
    /\ response = NoResponse
    /\ inflight = NoneInFlight

NextWebhook ==
    \E now \in Times : \E request \in WebhookRequests : api_webhook(request, now)

SpecWebhook == InitWebhook /\ [][NextWebhook]_vars

----------------------------------------------------------------------------
(* Campaign *)

CampaignStatuses == {"draft", "scheduled", "sending", "completed", "cancelled"}

Campaign(hub, status, scheduled_at) ==
    [hub_id |-> hub, status |-> status, scheduled_at |-> scheduled_at,
     started_at |-> NULL, completed_at |-> NULL, is_deleted |-> FALSE]

start_fields == {"status", "started_at", "updated_at"}

(* A variant that sets the status alone. *)
start_unstamped(self, now) == [self EXCEPT !.status = "sending"]

start(self, now) == [self EXCEPT !.status = "sending", !.started_at = now]

cancel_fields == {"status", "updated_at"}

(* A variant that completes the campaign. *)
cancel_completed(self) == [self EXCEPT !.status = "completed"]

cancel(self) == [self EXCEPT !.status = "cancelled"]

(* A variant that does not look at the hub. *)
get_object_or_404_any_hub(table, pk, hub) ==
    {k \in objects(table) : k = pk /\ table[k].is_deleted = FALSE}

(* get_object_or_404(Model, pk=pk, hub_id=hub, is_deleted=False) *)
get_object_or_404(table, pk, hub) ==
    {k \in objects(table) :
        k = pk /\ table[k].hub_id = hub /\ table[k].is_deleted = FALSE}

(* The keys a request may name: each stored row and one unknown key.       *)
Pks(table) == 1..(Len(table) + 1)

CampaignForms ==
    [name : {"", "Promo"}, channel : {"", "email", "telegram"},
     scheduled_at : {NULL} \cup Times]

CampaignRequests ==
    {[method |-> "GET"]} \cup {[method |-> "POST", form |-> f] : f \in CampaignForms}

CampaignForm_is_valid(form) ==
    /\ form.name # ""
    /\ form.channel \in ValidChannels \cup {"all"}

(* Campaign.objects.filter(hub_id=hub, is_deleted=False) *)
CampaignsOf(table, hub) ==
    {pk \in objects(table) : table[pk].hub_id = hub /\ ~table[pk].is_deleted}

campaign_create(hub, request) ==
    /\ UNCHANGED <<messages, templates, settings, inflight>>
    /\ IF request.method = "POST" /\ CampaignForm_is_valid(request.form)
       THEN /\ Len(campaigns) < MaxCampaigns
            /\ campaigns' = Append(campaigns,
                                   Campaign(hub, "draft", request.form.scheduled_at))
            /\ Responded("campaign_create", hub, request, 200,
                         [notice |-> "success", campaigns |-> CampaignsOf(campaigns', hub)])
       ELSE /\ UNCHANGED campaigns
            /\ Responded("campaign_create", hub, request, 200,
                         [notice |-> "", campaigns |-> {}])

(* A variant that refuses a completed campaign only. *)
campaign_start_unfinished(status) == status \notin {"completed"}

campaign_start_allowed(status) == status \in {"draft", "scheduled"}

campaign_start(hub, pk, now) ==
    /\ UNCHANGED <<messages, templates, settings, inflight>>
    /\ IF get_object_or_404(campaigns, pk, hub) = {}
       THEN /\ UNCHANGED campaigns
            /\ Responded("campaign_start", hub, [pk |-> pk], 404, [notice |-> ""])
       ELSE
         LET campaign == campaigns[pk]
         IN
         IF ~campaign_start_allowed(campaign.status)
         THEN /\ UNCHANGED campaigns
              /\ Responded("campaign_start", hub, [pk |-> pk], 200,
                           [notice |-> "error", campaign |-> pk])
         ELSE /\ campaigns' = [campaigns EXCEPT
                     ![pk] = save(campaign, start(campaign, now), start_fields)]
              /\ Responded("campaign_start", hub, [pk |-> pk], 200,
                           [notice |-> "success", campaign |-> pk])

(* A variant that refuses a cancelled campaign only. *)
campaign_cancel_cancelled(status) == status = "cancelled"

campaign_cancel_finished(status) == status \in {"completed", "cancelled"}

campaign_cancel(hub, pk) ==
    /\ UNCHANGED <<messages, templates, settings, inflight>>
    /\ IF get_object_or_404(campaigns, pk, hub) = {}
       THEN /\ UNCHANGED campaigns
            /\ Responded("campaign_cancel", hub, [pk |-> pk], 404, [notice |-> ""])
       ELSE
         LET campaign == campaigns[pk]
         IN
         IF campaign_cancel_finished(campaign.status)
         THEN /\ UNCHANGED campaigns
              /\ Responded("campaign_cancel", hub, [pk |-> pk], 200,
                           [notice |-> "error", campaign |-> pk])
         ELSE /\ campaigns' = [campaigns EXCEPT
                     ![pk] = save(campaign, cancel(campaign), cancel_fields)]
              /\ Responded("campaign_cancel", hub, [pk |-> pk], 200,
                           [notice |-> "success", campaign |-> pk])

(* The campaign specification: the table is empty or holds one campaign    *)
(* recorded earlier in any status; requests reach the campaign handlers   *)
(* one at a time.                                                           *)

StoredCampaigns ==
    {[Campaign("h1", st, NULL) EXCEPT !.is_deleted = del] :
        st \in CampaignStatuses, del \in BOOLEAN}

InitCampaign ==
    /\ campaigns \in {<<>>} \cup {<<c>> : c \in StoredCampaigns}
    /\ messages = <<>>
    /\ templates = <<>>
    /\ settings = <<>>
    /\ response = NoResponse
    /\ inflight = NoneInFlight

NextCampaign ==
    \/ \E hub \in Hubs : \E request \in CampaignRequests : campaign_create(hub, request)
    \/ \E hub \in Hubs, now \in Times : \E pk \in Pks(campaigns) : campaign_start(hub, pk, now)
    \/ \E hub \in Hubs : \E pk \in Pks(campaigns) : campaign_cancel(hub, pk)

SpecCampaign == InitCampaign /\ [][NextCampaign]_vars

----------------------------------------------------------------------------
(* The created-campaign specification: the table starts empty, so every   *)
(* campaign is one campaign_create has stored; requests reach the         *)
(* campaign handlers one at a time.                                        *)

InitCampaignCreated ==
    /\ campaigns = <<>>
    /\ messages = <<>>
    /\ templates = <<>>
    /\ settings = <<>>
    /\ response = NoResponse
    /\ inflight = NoneInFlight

SpecCampaignCreated == InitCampaignCreated /\ [][NextCampaign]_vars

----------------------------------------------------------------------------
(* Template handlers *)

MaxTemplates == 1

(* A variant that leaves the row as it is. *)
delete_unflagged(self) == self

(* HubBaseModel.delete(): the row stays in the table, flagged.             *)
delete(self) == [self EXCEPT !.is_deleted = TRUE]

(* MessageTemplateForm: is_system is not among its fields.                 *)
TemplateForms ==
    [name : {"", "Promo"}, body : {"", "Hello {{name}}"}, is_active : BOOLEAN]

TemplateRequests ==
    {[method |-> "GET"]} \cup {[method |-> "POST", form |-> f] : f \in TemplateForms}

MessageTemplateForm_is_valid(form) ==
    /\ form.name # ""
    /\ form.body # ""

(* form.save(): the form's fields are written to the instance.  Of the     *)
(* form's fields the rows keep name and is_active.                         *)
MessageTemplateForm_save(instance, form) ==
    [instance EXCEPT !.name = form.name, !.is_active = form.is_active]

(* MessageTemplate.objects.filter(hub_id=hub, is_deleted=False) *)
TemplatesOf(table, hub) ==
    {pk \in objects(table) : table[pk].hub_id = hub /\ ~table[pk].is_deleted}

(* The model's defaults: is_active True, is_system False. *)
MessageTemplate_default(hub) == MessageTemplate(hub, "", TRUE, FALSE)

template_create(hub, request) ==
    /\ UNCHANGED <<messages, campaigns, settings, inflight>>
    /\ IF request.method = "POST" /\ MessageTemplateForm_is_valid(request.form)
       THEN /\ Len(templates) < MaxTemplates
            /\ templates' = Append(templates,
                  MessageTemplateForm_save(MessageTemplate_default(hub), request.form))
            /\ Responded("template_create", hub, request, 200,
                         [notice |-> "success", templates |-> TemplatesOf(templates', hub)])
       ELSE /\ UNCHANGED templates
            /\ Responded("template_create", hub, request, 200,
                         [notice |-> "", templates |-> {}])

template_edit(hub, pk, request) ==
    /\ UNCHANGED <<messages, campaigns, settings, inflight>>
    /\ IF get_object_or_404(templates, pk, hub) = {}
       THEN /\ UNCHANGED templates
            /\ Responded("template_edit", hub, [pk |-> pk, method |-> request.method],
                         404, [notice |-> "", templates |-> {}])
       ELSE
         LET template == templates[pk]
         IN
         IF request.method = "POST" /\ MessageTemplateForm_is_valid(request.form)
         THEN /\ templates' = [templates EXCEPT
                     ![pk] = MessageTemplateForm_save(template, request.form)]
              /\ Responded("template_edit", hub, [pk |-> pk, method |-> request.method],
                           200, [notice |-> "success",
                                 templates |-> TemplatesOf(templates', hub)])
         ELSE /\ UNCHANGED templates
              /\ Responded("template_edit", hub, [pk |-> pk, method |-> request.method],
                           200, [notice |-> "", templates |-> {}])

(* A variant that refuses no template. *)
template_delete_anything(template) == FALSE

template_delete_refused(template) == template.is_system

template_delete(hub, pk) ==
    /\ UNCHANGED <<messages, campaigns, settings, inflight>>
    /\ IF get_object_or_404(templates, pk, hub) = {}
       THEN /\ UNCHANGED templates
            /\ Responded("template_delete", hub, [pk |-> pk, method |-> "POST"],
                         404, [notice |-> "", templates |-> {}])
       ELSE
         LET template == templates[pk]
         IN
         IF template_delete_refused(template)
         THEN /\ UNCHANGED templates
              /\ Responded("template_delete", hub, [pk |-> pk, method |-> "POST"],
                           200, [notice |-> "error",
                                 templates |-> TemplatesOf(templates, hub)])
         ELSE /\ templates' = [templates EXCEPT ![pk] = delete(template)]
              /\ Responded("template_delete", hub, [pk |-> pk, method |-> "POST"],
                           200, [notice |-> "success",
                                 templates |-> TemplatesOf(templates', hub)])

(* The template specification: the table is empty or holds one template    *)
(* of hub h1, system or not, deleted or not; requests reach the template   *)
(* handlers one at a time.                                                  *)

StoredTemplates ==
    {[MessageTemplate("h1", "Reminder", TRUE, sys) EXCEPT !.is_deleted = del] :
        sys \in BOOLEAN, del \in BOOLEAN}

InitTemplate ==
    /\ templates \in {<<>>} \cup {<<t>> : t \in StoredTemplates}
    /\ messages = <<>>
    /\ campaigns = <<>>
    /\ settings = <<>>
    /\ response = NoResponse
    /\ inflight = NoneInFlight

NextTemplate ==
    \/ \E hub \in Hubs : \E request \in TemplateRequests : template_create(hub, request)
    \/ \E hub \in Hubs : \E pk \in Pks(templates) : \E request \in TemplateRequests :
          template_edit(hub, pk, request)
    \/ \E hub \in Hubs : \E pk \in Pks(templates) : template_delete(hub, pk)

SpecTemplate == InitTemplate /\ [][NextTemplate]_vars

----------------------------------------------------------------------------
(* MessagingSettings *)

DefaultSmtpPort == 587

(* Of its columns the rows keep whatsapp_enabled and email_smtp_port.      *)
MessagingSettings(hub) ==
    [hub_id |-> hub, whatsapp_enabled |-> FALSE,
     email_smtp_port |-> DefaultSmtpPort, is_deleted |-> FALSE]

(* A table without the constraint. *)
unique_together_absent(table, hub) == TRUE

(* unique_together = [('hub_id',)] *)
unique_together(table, hub) == \A pk \in all_objects(table) : table[pk].hub_id # hub

(* manager.get_or_create(hub_id=hub), manager given by the keys it sees:   *)
(* the row of that hub when the manager sees one, otherwise a new row of   *)
(* defaults, which the unique constraint refuses when the table already    *)
(* holds a row of that hub.                                                 *)
get_or_create(table, manager, hub) ==
    LET found == {pk \in manager : table[pk].hub_id = hub}
    IN
    IF found # {}
    THEN [table |-> table, pk |-> CHOOSE pk \in found : TRUE, error |-> ""]
    ELSE IF ~unique_together(table, hub)
    THEN [table |-> table, pk |-> NULL, error |-> "IntegrityError"]
    ELSE [table |-> Append(table, MessagingSettings(hub)),
          pk |-> Len(table) + 1, error |-> ""]

(* A variant through the default manager, which hides deleted rows. *)
get_settings_objects(table, hub) == get_or_create(table, objects(table), hub)

get_settings(table, hub) == get_or_create(table, all_objects(table), hub)

(* The values a posted settings form carries for the port: blank, or a     *)
(* number in text.                                                          *)
PortTexts == {"", "25", "587"}

IntegerField_clean(text) ==
    CASE text = "25" -> 25
      [] text = "587" -> DefaultSmtpPort
      [] OTHER -> NULL

SettingsForms == [whatsapp_enabled : BOOLEAN, email_smtp_port : PortTexts]

MessagingSettingsForm_is_valid(form) == form.email_smtp_port # ""

MessagingSettingsForm_save(instance, form) ==
    [instance EXCEPT !.whatsapp_enabled = form.whatsapp_enabled,
                     !.email_smtp_port = IntegerField_clean(form.email_smtp_port)]

settings_view(hub) ==
    /\ UNCHANGED <<messages, templates, campaigns, inflight>>
    /\ LET got == get_settings(settings, hub)
       IN
       IF got.error # ""
       THEN /\ UNCHANGED settings
            /\ Responded("settings_view", hub, [method |-> "GET"], 500,
                         [notice |-> "", settings |-> NULL])
       ELSE /\ settings' = got.table
            /\ Responded("settings_view", hub, [method |-> "GET"], 200,
                         [notice |-> "", settings |-> got.pk])

settings_save(hub, form) ==
    /\ UNCHANGED <<messages, templates, campaigns, inflight>>
    /\ LET got == get_settings(settings, hub)
       IN
       IF got.error # ""
       THEN /\ UNCHANGED settings
            /\ Responded("settings_save", hub, [method |-> "POST", form |-> form], 500,
                         [notice |-> "", settings |-> NULL])
       ELSE IF MessagingSettingsForm_is_valid(form)
       THEN /\ settings' = [got.table EXCEPT
                   ![got.pk] = MessagingSettingsForm_save(got.table[got.pk], form)]
            /\ Responded("settings_save", hub, [method |-> "POST", form |-> form], 200,
                         [notice |-> "success", settings |-> got.pk])
       ELSE /\ settings' = got.table
            /\ Responded("settings_save", hub, [method |-> "POST", form |-> form], 200,
                         [notice |-> "error", settings |-> got.pk])

(* The settings specification: the table is empty or holds the row of hub  *)
(* h1, possibly logically deleted; requests reach the settings handlers    *)
(* one at a time.                                                           *)

StoredSettings ==
    {[MessagingSettings("h1") EXCEPT !.is_deleted = del] : del \in BOOLEAN}

InitSettings ==
    /\ settings \in {<<>>} \cup {<<row>> : row \in StoredSettings}
    /\ messages = <<>>
    /\ templates = <<>>
    /\ campaigns = <<>>
    /\ response = NoResponse
    /\ inflight = NoneInFlight

NextSettings ==
    \/ \E hub \in Hubs : settings_view(hub)
    \/ \E hub \in Hubs : \E form \in SettingsForms : settings_save(hub, form)

SpecSettings == InitSettings /\ [][NextSettings]_vars

----------------------------------------------------------------------------
(* Concurrent requests to the settings handlers.  Each worker serves one   *)
(* request at a time; get_or_create is Django's: get(), on DoesNotExist    *)
(* create() inside a savepoint, on IntegrityError get() again.  Every      *)
(* query is one step against the table.                                    *)

Workers == {"w1", "w2"}

Idle == [pc |-> "idle"]

(* The requests the workers take: a view, a save of a valid form and a     *)
(* save of a form without port.                                            *)
SettingsRequests ==
    {[op |-> "settings_view"],
     [op |-> "settings_save",
      form |-> [whatsapp_enabled |-> TRUE, email_smtp_port |-> "25"]],
     [op |-> "settings_save",
      form |-> [whatsapp_enabled |-> FALSE, email_smtp_port |-> ""]]}

(* cls.all_objects ... get(hub_id=hub_id) *)
get_settings_get(table, hub) == {pk \in all_objects(table) : table[pk].hub_id = hub}

(* A worker takes a request of its session's hub and enters get_settings.  *)
settings_begin(w, hub, request) ==
    /\ inflight[w].pc = "idle"
    /\ inflight' = [inflight EXCEPT ![w] =
          [pc |-> "get", hub |-> hub, request |-> request, pk |-> NULL,
           caught |-> FALSE]]
    /\ UNCHANGED <<messages, templates, campaigns, settings, response>>

get_or_create_get(w) ==
    /\ inflight[w].pc = "get"
    /\ LET found == get_settings_get(settings, inflight[w].hub)
       IN
       inflight' = [inflight EXCEPT ![w] =
          IF found # {}
          THEN [@ EXCEPT !.pc = "got", !.pk = CHOOSE pk \in found : TRUE]
          ELSE [@ EXCEPT !.pc = "create"]]
    /\ UNCHANGED <<messages, templates, campaigns, settings, response>>

get_or_create_create(w) ==
    /\ inflight[w].pc = "create"
    /\ UNCHANGED <<messages, templates, campaigns, response>>
    /\ IF unique_together(settings, inflight[w].hub)
       THEN /\ settings' = Append(settings, MessagingSettings(inflight[w].hub))
            /\ inflight' = [inflight EXCEPT ![w] =
                  [@ EXCEPT !.pc = "got", !.pk = Len(settings) + 1]]
       ELSE /\ UNCHANGED settings
            /\ inflight' = [inflight EXCEPT ![w] =
                  [@ EXCEPT !.pc = "retry", !.caught = TRUE]]

get_or_create_retry(w) ==
    /\ inflight[w].pc = "retry"
    /\ LET found == get_settings_get(settings, inflight[w].hub)
       IN
       inflight' = [inflight EXCEPT ![w] =
          IF found # {}
          THEN [@ EXCEPT !.pc = "got", !.pk = CHOOSE pk \in found : TRUE]
          ELSE [@ EXCEPT !.pc = "raised"]]
    /\ UNCHANGED <<messages, templates, campaigns, settings, response>>

(* The rest of settings_view / settings_save once get_settings returned    *)
(* (or raised): the posted form, when valid, is saved to the row.          *)
settings_finish(w) ==
    /\ inflight[w].pc \in {"got", "raised"}
    /\ inflight' = [inflight EXCEPT ![w] = Idle]
    /\ UNCHANGED <<messages, templates, campaigns>>
    /\ LET hub == inflight[w].hub
           request == inflight[w].request
           pk == inflight[w].pk
       IN
       IF inflight[w].pc = "raised"
       THEN /\ UNCHANGED settings
            /\ Responded(request.op, hub, request, 500,
                         [notice |-> "", settings |-> NULL])
       ELSE IF request.op = "settings_save"
                 /\ MessagingSettingsForm_is_valid(request.form)
       THEN /\ settings' = [settings EXCEPT
                   ![pk] = MessagingSettingsForm_save(settings[pk], request.form)]
            /\ Responded(request.op, hub, request, 200,
                         [notice |-> "success", settings |-> pk])
       ELSE /\ UNCHANGED settings
            /\ Responded(request.op, hub, request, 200,
                         [notice |-> IF request.op = "settings_save" THEN "error" ELSE "",
                          settings |-> pk])

InitSettingsConcurrent ==
    /\ settings \in {<<>>} \cup {<<row>> : row \in StoredSettings}
    /\ messages = <<>>
    /\ templates = <<>>
    /\ campaigns = <<>>
    /\ response = NoResponse
    /\ inflight = [w \in Workers |-> Idle]

SettingsStep(w) ==
    \/ get_or_create_get(w)
    \/ get_or_create_create(w)
    \/ get_or_create_retry(w)
    \/ settings_finish(w)

NextSettingsConcurrent ==
    \/ \E w \in Workers, hub \in Hubs : \E request \in SettingsRequests :
          settings_begin(w, hub, request)
    \/ \E w \in Workers : SettingsStep(w)

(* A request that has been taken runs to its end. *)
SpecSettingsConcurrent ==
    /\ InitSettingsConcurrent
    /\ [][NextSettingsConcurrent]_vars
    /\ \A w \in Workers : WF_vars(SettingsStep(w))

----------------------------------------------------------------------------
(* Concurrent requests to campaign_start and campaign_cancel.  A handler   *)
(* loads the campaign with one query (get_object_or_404), checks the       *)
(* status of the instance it loaded and calls start() or cancel(), whose   *)
(* save() is a second query; no lock or transaction joins the two, so      *)
(* another worker's queries may run between them.                          *)

CampaignOps == {"campaign_start", "campaign_cancel"}

(* get_object_or_404(Campaign, pk=pk, hub_id=hub, is_deleted=False) *)
campaign_load(w, hub, op, pk) ==
    /\ inflight[w].pc = "idle"
    /\ UNCHANGED <<messages, templates, campaigns, settings>>
    /\ IF get_object_or_404(campaigns, pk, hub) = {}
       THEN /\ UNCHANGED inflight
            /\ Responded(op, hub, [pk |-> pk], 404, [notice |-> ""])
       ELSE /\ inflight' = [inflight EXCEPT ![w] =
                  [pc |-> "loaded", op |-> op, hub |-> hub, pk |-> pk,
                   instance |-> campaigns[pk]]]
            /\ UNCHANGED response

(* The guard on the loaded instance and, when it passes, start() or        *)
(* cancel() with its save(update_fields=...).                              *)
campaign_write(w, now) ==
    /\ inflight[w].pc = "loaded"
    /\ inflight' = [inflight EXCEPT ![w] = Idle]
    /\ UNCHANGED <<messages, templates, settings>>
    /\ LET op == inflight[w].op
           hub == inflight[w].hub
           pk == inflight[w].pk
           campaign == inflight[w].instance
           refused == IF op = "campaign_start"
                      THEN ~campaign_start_allowed(campaign.status)
                      ELSE campaign_cancel_finished(campaign.status)
       IN
       IF refused
       THEN /\ UNCHANGED campaigns
            /\ Responded(op, hub, [pk |-> pk], 200, [notice |-> "error", campaign |-> pk])
       ELSE /\ campaigns' = [campaigns EXCEPT ![pk] =
                  IF op = "campaign_start"
                  THEN save(@, start(campaign, now), start_fields)
                  ELSE save(@, cancel(campaign), cancel_fields)]
            /\ Responded(op, hub, [pk |-> pk], 200,
                         [notice |-> "success", campaign |-> pk])

(* The concurrent campaign specification: one campaign recorded earlier,   *)
(* in any status, and two workers taking start and cancel requests.        *)
InitCampaignConcurrent ==
    /\ campaigns \in {<<c>> : c \in StoredCampaigns}
    /\ messages = <<>>
    /\ templates = <<>>
    /\ settings = <<>>
    /\ response = NoResponse
    /\ inflight = [w \in Workers |-> Idle]

NextCampaignConcurrent ==
    \/ \E w \in Workers, hub \in Hubs, op \in CampaignOps :
          \E pk \in Pks(campaigns) : campaign_load(w, hub, op, pk)
    \/ \E w \in Workers, now \in Times : campaign_write(w, now)

SpecCampaignConcurrent == InitCampaignConcurrent /\ [][NextCampaignConcurrent]_vars

----------------------------------------------------------------------------
(* Concurrent requests to api_webhook.  A request parses its body, loads   *)
(* the message with one query (Message.objects.get), calls the mark        *)
(* operation on the instance it loaded, whose save() is a second query,    *)
(* and then answers with the instance's key.                               *)

(* The body is parsed and checked and the message is looked up. *)
webhook_load(w, request) ==
    /\ inflight[w].pc = "idle"
    /\ UNCHANGED <<messages, templates, campaigns, settings>>
    /\ IF request.kind = "invalid"
       THEN /\ Responded("api_webhook", "", request, 400, [error |-> "Invalid JSON"])
            /\ UNCHANGED inflight
       ELSE IF request.kind = "nonobject"
       THEN /\ Responded("api_webhook", "", request, 500, [error |-> "AttributeError"])
            /\ UNCHANGED inflight
       ELSE
         LET data == request.data
             external_id == Get(data, "external_id", "")
             status == Get(data, "status", "")
             found == api_webhook_lookup(messages, external_id)
         IN
         IF api_webhook_required(external_id, status)
         THEN /\ Responded("api_webhook", "", request, 400,
                           [error |-> "external_id and status required"])
              /\ UNCHANGED inflight
         ELSE IF found = {}
         THEN /\ Responded("api_webhook", "", request, 404,
                           [error |-> "Message not found"])
              /\ UNCHANGED inflight
         ELSE IF Cardinality(found) > 1
         THEN /\ Responded("api_webhook", "", request, 500,
                           [error |-> "MultipleObjectsReturned"])
              /\ UNCHANGED inflight
         ELSE
           LET pk == CHOOSE k \in found : TRUE
           IN
           /\ inflight' = [inflight EXCEPT ![w] =
                 [pc |-> "loaded", request |-> request, pk |-> pk,
                  instance |-> messages[pk]]]
           /\ UNCHANGED response

(* The instance after the mark operation the status names. *)
webhook_marked(msg, status, error_message, now) ==
    IF status = "delivered" THEN mark_delivered(msg, now)
    ELSE IF status = "read" THEN mark_read(msg, now)
    ELSE IF status = "failed" THEN mark_failed(msg, error_message)
    ELSE IF status = "sent" THEN mark_sent(msg, now)
    ELSE msg

(* The update_fields of the mark operation the status names. *)
webhook_fields(status) ==
    IF status = "delivered" THEN mark_delivered_fields
    ELSE IF status = "read" THEN mark_read_fields
    ELSE IF status = "failed" THEN mark_failed_fields
    ELSE IF status = "sent" THEN mark_sent_fields
    ELSE {}

(* The mark operation on the loaded instance: the instance changes and    *)
(* the operation's update_fields are written to the row as it is now.     *)
webhook_apply(w, now) ==
    /\ inflight[w].pc = "loaded"
    /\ UNCHANGED <<templates, campaigns, settings, response>>
    /\ LET data == inflight[w].request.data
           status == Get(data, "status", "")
           error_message == Get(data, "error", "")
           pk == inflight[w].pk
           msg == webhook_marked(inflight[w].instance, status, error_message, now)
       IN
       /\ messages' = [messages EXCEPT ![pk] = save(@, msg, webhook_fields(status))]
       /\ inflight' = [inflight EXCEPT ![w] = [@ EXCEPT !.pc = "saved", !.instance = msg]]

(* return JsonResponse({'success': True, 'message_id': str(msg.pk)}) *)
webhook_answer(w) ==
    /\ inflight[w].pc = "saved"
    /\ inflight' = [inflight EXCEPT ![w] = Idle]
    /\ Responded("api_webhook", "", inflight[w].request, 200,
                 [success |-> TRUE, message_id |-> inflight[w].pk])
    /\ UNCHANGED <<messages, templates, campaigns, settings>>

(* The requests the workers take: a delivery report and a read report for *)
(* the stored message, and a delivery report for an unknown one.           *)
ConcurrentWebhookRequests ==
    {[kind |-> "object", data |-> [external_id |-> "X", status |-> "delivered", error |-> Absent]],
     [kind |-> "object", data |-> [external_id |-> "X", status |-> "read", error |-> Absent]],
     [kind |-> "object", data |-> [external_id |-> "Z", status |-> "delivered", error |-> Absent]]}

(* The concurrent webhook specification: one message recorded earlier      *)
(* with its external_id, queued or sent, and two workers taking webhook    *)
(* requests.                                                                *)
InitWebhookConcurrent ==
    /\ messages \in {<<a>> : a \in {m \in LoggedMessages("h1") :
                                       m.external_id = "X" /\ ~m.is_deleted}}
    /\ templates = <<>>
    /\ campaigns = <<>>
    /\ settings = <<>>
    /\ response = NoResponse
    /\ inflight = [w \in Workers |-> Idle]

NextWebhookConcurrent ==
    \/ \E w \in Workers : \E request \in ConcurrentWebhookRequests : webhook_load(w, request)
    \/ \E w \in Workers, now \in Times : webhook_apply(w, now)
    \/ \E w \in Workers : webhook_answer(w)

SpecWebhookConcurrent == InitWebhookConcurrent /\ [][NextWebhookConcurrent]_vars

----------------------------------------------------------------------------
(* The mark operations of Message, called on an instance.  An instance is  *)
(* a copy of the row taken when it was loaded; the row may have been       *)
(* written since.  A mark operation is called on the instance the caller   *)
(* holds or on one loaded for the call, and saves its update_fields.       *)

Caller == "w1"

(* What a call leaves in response: the operation and its arguments. *)
Called(op, args) ==
    response' = [op |-> op, hub |-> "", request |-> args, code |-> 0,
                 body |-> [notice |-> ""]]

(* Message.objects.get(pk=pk) *)
Message_get(pk) ==
    /\ pk \in objects(messages)
    /\ inflight' = [inflight EXCEPT ![Caller] =
          [pc |-> "loaded", pk |-> pk, instance |-> messages[pk]]]
    /\ Called("get", [pk |-> pk, fresh |-> TRUE])
    /\ UNCHANGED <<messages, templates, campaigns, settings>>

(* The instance of row pk a call is made on: the one held when fresh is    *)
(* false, the row as it is now when fresh is true.                         *)
Instances(pk, fresh) ==
    IF fresh
    THEN {messages[pk]}
    ELSE IF inflight[Caller].pc = "loaded" /\ inflight[Caller].pk = pk
    THEN {inflight[Caller].instance}
    ELSE {}

(* instance.mark_x(): the instance is changed and its update_fields are    *)
(* written to the row.                                                      *)
Message_call(op, pk, fresh, after, fields, args) ==
    /\ messages' = [messages EXCEPT ![pk] = save(messages[pk], after, fields)]
    /\ inflight' = [inflight EXCEPT ![Caller] =
          IF fresh THEN @ ELSE [@ EXCEPT !.instance = after]]
    /\ Called(op, args)
    /\ UNCHANGED <<templates, campaigns, settings>>

Message_mark_sent(pk, fresh, now) ==
    \E self \in Instances(pk, fresh) :
        Message_call("mark_sent", pk, fresh, mark_sent(self, now), mark_sent_fields,
                     [pk |-> pk, fresh |-> fresh])

Message_mark_delivered(pk, fresh, now) ==
    \E self \in Instances(pk, fresh) :
        Message_call("mark_delivered", pk, fresh, mark_delivered(self, now),
                     mark_delivered_fields, [pk |-> pk, fresh |-> fresh])

Message_mark_read(pk, fresh, now) ==
    \E self \in Instances(pk, fresh) :
        Message_call("mark_read", pk, fresh, mark_read(self, now), mark_read_fields,
                     [pk |-> pk, fresh |-> fresh])

Message_mark_failed(pk, fresh, error) ==
    \E self \in Instances(pk, fresh) :
        Message_call("mark_failed", pk, fresh, mark_failed(self, error),
                     mark_failed_fields, [pk |-> pk, fresh |-> fresh, error |-> error])

(* The texts a failure is reported with; '' is the default of mark_failed. *)
Errors == {"", "E"}

(* The mark specification: one message, created queued with no timestamp   *)
(* and no error.                                                            *)
InitMark ==
    /\ messages = <<Message("h1", "queued", NULL)>>
    /\ templates = <<>>
    /\ campaigns = <<>>
    /\ settings = <<>>
    /\ response = NoResponse
    /\ inflight = [w \in {Caller} |-> Idle]

NextMark ==
    \/ \E pk \in all_objects(messages) : Message_get(pk)
    \/ \E pk \in all_objects(messages), fresh \in BOOLEAN, now \in Times :
          Message_mark_sent(pk, fresh, now)
    \/ \E pk \in all_objects(messages), fresh \in BOOLEAN, now \in Times :
          Message_mark_delivered(pk, fresh, now)
    \/ \E pk \in all_objects(messages), fresh \in BOOLEAN, now \in Times :
          Message_mark_read(pk, fresh, now)
    \/ \E pk \in all_objects(messages), fresh \in BOOLEAN, error \in Errors :
          Message_mark_failed(pk, fresh, error)

SpecMark == InitMark /\ [][NextMark]_vars

----------------------------------------------------------------------------
(* delete() called on a stored Message, MessageTemplate or Campaign.       *)

Message_delete(pk) ==
    /\ messages' = [messages EXCEPT ![pk] = delete(messages[pk])]
    /\ Called("delete", [table |-> "messages", pk |-> pk])
    /\ UNCHANGED <<templates, campaigns, settings, inflight>>

MessageTemplate_delete(pk) ==
    /\ templates' = [templates EXCEPT ![pk] = delete(templates[pk])]
    /\ Called("delete", [table |-> "templates", pk |-> pk])
    /\ UNCHANGED <<messages, campaigns, settings, inflight>>

Campaign_delete(pk) ==
    /\ campaigns' = [campaigns EXCEPT ![pk] = delete(campaigns[pk])]
    /\ Called("delete", [table |-> "campaigns", pk |-> pk])
    /\ UNCHANGED <<messages, templates, settings, inflight>>

(* The delete specification: one message, one template and one campaign,   *)
(* each in any status and possibly deleted already.                        *)
InitDelete ==
    /\ messages \in {<<[Message("h1", st, NULL) EXCEPT !.is_deleted = del]>> :
                        st \in MessageStatuses, del \in BOOLEAN}
    /\ templates \in {<<t>> : t \in StoredTemplates}
    /\ campaigns \in {<<c>> : c \in StoredCampaigns}
    /\ settings = <<>>
    /\ response = NoResponse
    /\ inflight = NoneInFlight

NextDelete ==
    \/ \E pk \in all_objects(messages) : Message_delete(pk)
    \/ \E pk \in all_objects(templates) : MessageTemplate_delete(pk)
    \/ \E pk \in all_objects(campaigns) : Campaign_delete(pk)

SpecDelete == InitDelete /\ [][NextDelete]_vars

----------------------------------------------------------------------------
(* The handlers addressed by id.                                            *)

message_detail(hub, pk) ==
    /\ UNCHANGED <<messages, templates, campaigns, settings, inflight>>
    /\ IF get_object_or_404(messages, pk, hub) = {}
       THEN Responded("message_detail", hub, [pk |-> pk], 404, [notice |-> ""])
       ELSE Responded("message_detail", hub, [pk |-> pk], 200,
                      [notice |-> "", message |-> pk])

campaign_detail(hub, pk) ==
    /\ UNCHANGED <<messages, templates, campaigns, settings, inflight>>
    /\ IF get_object_or_404(campaigns, pk, hub) = {}
       THEN Responded("campaign_detail", hub, [pk |-> pk], 404, [notice |-> ""])
       ELSE Responded("campaign_detail", hub, [pk |-> pk], 200,
                      [notice |-> "", campaign |-> pk])

(* The specification of the id-addressed handlers: one message, one        *)
(* template and one campaign of hub h1, each possibly deleted; requests of *)
(* either hub name a stored key or an unknown one.                         *)
InitById ==
    /\ messages \in {<<[Message("h1", "sent", NULL) EXCEPT !.is_deleted = del]>> :
                        del \in BOOLEAN}
    /\ templates \in {<<t>> : t \in StoredTemplates}
    /\ campaigns \in {<<c>> : c \in StoredCampaigns}
    /\ settings = <<>>
    /\ response = NoResponse
    /\ inflight = NoneInFlight

NextById ==
    \/ \E hub \in Hubs : \E pk \in Pks(messages) : message_detail(hub, pk)
    \/ \E hub \in Hubs : \E pk \in Pks(campaigns) : campaign_detail(hub, pk)
    \/ \E hub \in Hubs : \E pk \in Pks(templates) : \E request \in TemplateRequests :
          template_edit(hub, pk, request)
    \/ \E hub \in Hubs : \E pk \in Pks(templates) : template_delete(hub, pk)
    \/ \E hub \in Hubs, now \in Times : \E pk \in Pks(campaigns) : campaign_start(hub, pk, now)
    \/ \E hub \in Hubs : \E pk \in Pks(campaigns) : campaign_cancel(hub, pk)

SpecById == InitById /\ [][NextById]_vars

----------------------------------------------------------------------------
(* The list handlers.  Each shows the rows of the request's hub that are   *)
(* not deleted; the search and the channel filter, which only narrow the   *)
(* result, are left out, the status filter is kept.                        *)

StatusFilters == {"", "sent", "draft"}

messages_list(hub, status_filter) ==
    /\ UNCHANGED <<messages, templates, campaigns, settings, inflight>>
    /\ Responded("messages_list", hub, [status |-> status_filter], 200,
                 [notice |-> "",
                  messages_list |->
                     {pk \in MessagesOf(messages, hub) :
                         status_filter # "" => messages[pk].status = status_filter}])

templates_list(hub) ==
    /\ UNCHANGED <<messages, templates, campaigns, settings, inflight>>
    /\ Responded("templates_list", hub, [status |-> ""], 200,
                 [notice |-> "", templates |-> TemplatesOf(templates, hub)])

campaigns_list(hub, status_filter) ==
    /\ UNCHANGED <<messages, templates, campaigns, settings, inflight>>
    /\ Responded("campaigns_list", hub, [status |-> status_filter], 200,
                 [notice |-> "",
                  campaigns |->
                     {pk \in CampaignsOf(campaigns, hub) :
                         status_filter # "" => campaigns[pk].status = status_filter}])

(* The deletion specification: one sent message with an external_id, one   *)
(* template and one draft campaign of hub h1, each possibly deleted        *)
(* already;                                                                 *)
(* delete() is called on the message or the campaign, and requests reach   *)
(* the list handlers, the id-addressed handlers and the webhook (a         *)
(* delivery or read report for the message, or a report for an unknown     *)
(* one) one at a time.                                                      *)
InitDeletion ==
    /\ messages \in {<<[Message("h1", "sent", NULL) EXCEPT
                           !.external_id = "X", !.is_deleted = del]>> : del \in BOOLEAN}
    /\ templates \in {<<t>> : t \in StoredTemplates}
    /\ campaigns \in {<<c>> : c \in {k \in StoredCampaigns : k.status = "draft"}}
    /\ settings = <<>>
    /\ response = NoResponse
    /\ inflight = NoneInFlight

NextDeletion ==
    \/ \E pk \in all_objects(messages) : Message_delete(pk)
    \/ \E pk \in all_objects(campaigns) : Campaign_delete(pk)
    \/ \E hub \in Hubs, status_filter \in StatusFilters : messages_list(hub, status_filter)
    \/ \E hub \in Hubs : templates_list(hub)
    \/ \E hub \in Hubs, status_filter \in StatusFilters : campaigns_list(hub, status_filter)
    \/ \E hub \in Hubs : \E pk \in Pks(messages) : message_detail(hub, pk)
    \/ \E hub \in Hubs : \E pk \in Pks(campaigns) : campaign_detail(hub, pk)
    \/ \E hub \in Hubs : \E pk \in Pks(templates) : \E request \in TemplateRequests :
          template_edit(hub, pk, request)
    \/ \E hub \in Hubs : \E pk \in Pks(templates) : template_delete(hub, pk)
    \/ \E hub \in Hubs, now \in Times : \E pk \in Pks(campaigns) : campaign_start(hub, pk, now)
    \/ \E hub \in Hubs : \E pk \in Pks(campaigns) : campaign_cancel(hub, pk)
    \/ \E now \in Times : \E request \in ConcurrentWebhookRequests :
          api_webhook(request, now)

SpecDeletion == InitDeletion /\ [][NextDeletion]_vars

----------------------------------------------------------------------------
(* MessageTemplate.render_body / render_subject.  A text is the sequence   *)
(* of its characters.                                                       *)

MaxSegments == 2

(* Python scalars, each of one type. *)
PyStr(text) == [type |-> "str", text |-> text, int |-> NULL, bool |-> FALSE]
PyInt(n) == [type |-> "int", text |-> <<>>, int |-> n, bool |-> FALSE]
PyBool(b) == [type |-> "bool", text |-> <<>>, int |-> NULL, bool |-> b]
PyNoneValue == [type |-> "NoneType", text |-> <<>>, int |-> NULL, bool |-> FALSE]

Digit(d) ==
    CASE d = 0 -> "0" [] d = 1 -> "1" [] d = 2 -> "2" [] d = 3 -> "3" [] d = 4 -> "4"
      [] d = 5 -> "5" [] d = 6 -> "6" [] d = 7 -> "7" [] d = 8 -> "8" [] d = 9 -> "9"

RECURSIVE Digits(_)
Digits(n) == IF n < 10 THEN <<Digit(n)>> ELSE Append(Digits(n \div 10), Digit(n % 10))

(* str(value) *)
str(value) ==
    CASE value.type = "str" -> value.text
      [] value.type = "int" -> Digits(value.int)
      [] value.type = "bool" ->
            IF value.bool THEN <<"T", "r", "u", "e">> ELSE <<"F", "a", "l", "s", "e">>
      [] value.type = "NoneType" -> <<"N", "o", "n", "e">>

(* A variant of str.replace that leaves the text as it is. *)
replace_nothing(text, old, new) == text

(* text.replace(old, new): the occurrences of old, found left to right and *)
(* not overlapping, are replaced by new (old is never empty here).         *)
RECURSIVE replace(_, _, _)
replace(text, old, new) ==
    IF Len(text) < Len(old) \/ Len(old) = 0
    THEN text
    ELSE IF SubSeq(text, 1, Len(old)) = old
    THEN new \o replace(SubSeq(text, Len(old) + 1, Len(text)), old, new)
    ELSE <<Head(text)>> \o replace(Tail(text), old, new)

(* '{{' + key + '}}' *)
placeholder(key) == <<"{", "{">> \o key \o <<"}", "}">>

(* A context is None or a dict; a dict is the sequence of its items in     *)
(* iteration order, with distinct keys.                                    *)
NoContext == [is_none |-> TRUE, items |-> <<>>]
Dict(items) == [is_none |-> FALSE, items |-> items]

(* not context *)
not_context(context) == context.is_none \/ context.items = <<>>

(* for key, value in context.items(): result = result.replace(...) *)
RECURSIVE render_loop(_, _)
render_loop(result, items) ==
    IF items = <<>>
    THEN result
    ELSE render_loop(replace(result, placeholder(Head(items).key), str(Head(items).value)),
                     Tail(items))

AttributeError == <<"<AttributeError>">>

(* A variant without the guard: None has no items(). *)
render_body_unguarded(self, context) ==
    IF context.is_none THEN AttributeError ELSE render_loop(self.body, context.items)

render_body(self, context) ==
    IF not_context(context) THEN self.body ELSE render_loop(self.body, context.items)

render_subject(self, context) ==
    IF not_context(context) THEN self.subject ELSE render_loop(self.subject, context.items)

(* What a call leaves in response: the operation, its arguments and the   *)
(* value it returned.                                                       *)
Returned(op, args, result) ==
    response' = [op |-> op, hub |-> "", request |-> args, code |-> 0,
                 body |-> [notice |-> "", result |-> result]]

MessageTemplate_render_body(pk, context) ==
    /\ Returned("render_body", [pk |-> pk, context |-> context],
                render_body(templates[pk], context))
    /\ UNCHANGED <<messages, templates, campaigns, settings, inflight>>

MessageTemplate_render_subject(pk, context) ==
    /\ Returned("render_subject", [pk |-> pk, context |-> context],
                render_subject(templates[pk], context))
    /\ UNCHANGED <<messages, templates, campaigns, settings, inflight>>

(* The texts of the stored templates: up to MaxSegments pieces, each a     *)
(* greeting, a placeholder or a lone brace.                                *)
Hi == <<"H", "i", " ">>

KeyX == <<"x">>

KeyY == <<"y">>

Keys == {KeyX, KeyY}

Segments == {Hi, placeholder(KeyX), placeholder(KeyY), <<"{">>, <<"}">>}

RECURSIVE Texts(_)
Texts(n) ==
    IF n = 0
    THEN {<<>>}
    ELSE LET shorter == Texts(n - 1)
         IN shorter \cup {text \o segment : text \in shorter, segment \in Segments}

(* The values a context gives: texts (one empty, two that are themselves   *)
(* placeholders), integers, a boolean and None.                            *)
Values ==
    {PyStr(<<"B", "o", "b">>), PyStr(<<>>), PyStr(placeholder(KeyX)),
     PyStr(placeholder(KeyY)), PyInt(7), PyInt(42), PyBool(TRUE), PyNoneValue}

Items == [key : Keys, value : Values]

Contexts ==
    {NoContext, Dict(<<>>)}
       \cup {Dict(<<i>>) : i \in Items}
       \cup {Dict(<<pair[1], pair[2]>>) :
                pair \in {p \in Items \X Items : p[1].key # p[2].key}}

(* The render specification: one stored template, any of the texts as its *)
(* subject and body, and a caller holding the context it renders with.    *)

(* A MessageTemplate row with its text columns. *)
MessageTemplate_text(subject, body) ==
    [hub_id |-> "h1", name |-> "Reminder", is_active |-> TRUE, is_system |-> FALSE,
     is_deleted |-> FALSE, subject |-> subject, body |-> body]

InitRender ==
    /\ templates \in {<<MessageTemplate_text(subject, body)>> :
                         subject \in Texts(1), body \in Texts(MaxSegments)}
    /\ messages = <<>>
    /\ campaigns = <<>>
    /\ settings = <<>>
    /\ response = NoResponse
    /\ inflight \in {[context |-> context] : context \in Contexts}

NextRender ==
    \/ \E pk \in all_objects(templates) :
          MessageTemplate_render_body(pk, inflight.context)
    \/ \E pk \in all_objects(templates) :
          MessageTemplate_render_subject(pk, inflight.context)

SpecRender == InitRender /\ [][NextRender]_vars

----------------------------------------------------------------------------
(* Campaign.delivery_rate / progress_percent.  A percentage with one       *)
(* decimal is held as its number of tenths (80.0 is 800).                  *)

MaxCount == 4

(* A variant that cuts the second decimal off. *)
round_down(numerator, denominator) == (1000 * numerator) \div denominator

(* round((numerator / denominator) * 100, 1), in tenths: the nearest       *)
(* tenth, the even one when two are equally near.  (Two are equally near   *)
(* only for a denominator divisible by 16.)                                *)
round(numerator, denominator) ==
    LET q == (1000 * numerator) \div denominator
        r == (1000 * numerator) % denominator
    IN
    IF 2 * r > denominator THEN q + 1
    ELSE IF 2 * r < denominator THEN q
    ELSE IF q % 2 = 0 THEN q ELSE q + 1

delivery_rate(self) ==
    IF self.sent_count = 0 THEN 0 ELSE round(self.delivered_count, self.sent_count)

progress_percent(self) ==
    IF self.total_recipients = 0 THEN 0 ELSE round(self.sent_count, self.total_recipients)

Campaign_delivery_rate(pk) ==
    /\ Returned("delivery_rate", [pk |-> pk], delivery_rate(campaigns[pk]))
    /\ UNCHANGED <<messages, templates, campaigns, settings, inflight>>

Campaign_progress_percent(pk) ==
    /\ Returned("progress_percent", [pk |-> pk], progress_percent(campaigns[pk]))
    /\ UNCHANGED <<messages, templates, campaigns, settings, inflight>>

(* The counters of the stored campaigns: the small ones and those of the   *)
(* sending campaign of the tests.                                          *)
Counts == (0..MaxCount) \cup {20, 25, 50}

(* A Campaign row with its counters. *)
Campaign_counts(total_recipients, sent_count, delivered_count) ==
    [hub_id |-> "h1", status |-> "sending", scheduled_at |-> NULL, started_at |-> NULL,
     completed_at |-> NULL, is_deleted |-> FALSE,
     total_recipients |-> total_recipients, sent_count |-> sent_count,
     delivered_count |-> delivered_count]

InitPercent ==
    /\ campaigns \in {<<Campaign_counts(total, sent, delivered)>> :
                         total \in Counts, sent \in Counts, delivered \in Counts}
    /\ messages = <<>>
    /\ templates = <<>>
    /\ settings = <<>>
    /\ response = NoResponse
    /\ inflight = NoneInFlight

NextPercent ==
    \/ \E pk \in all_objects(campaigns) : Campaign_delivery_rate(pk)
    \/ \E pk \in all_objects(campaigns) : Campaign_progress_percent(pk)

SpecPercent == InitPercent /\ [][NextPercent]_vars

----------------------------------------------------------------------------
(* The message lifecycle specification: an empty message log and one      *)
(* stored template; requests reach api_send, the compose handler and the  *)
(* webhook one at a time, so every message is one this module created.    *)

InitLifecycle ==
    /\ messages = <<>>
    /\ templates = <<MessageTemplate("h1", "Reminder", TRUE, FALSE)>>
    /\ campaigns = <<>>
    /\ settings = <<>>
    /\ response = NoResponse
    /\ inflight = NoneInFlight

NextLifecycle ==
    \/ \E hub \in Hubs, now \in Times :
         \E request \in SendRequests(Refs(templates)) : api_send(hub, request, now)
    \/ \E hub \in Hubs, now \in Times :
         \E request \in ComposeRequests(Refs(templates)) : send_message(hub, request, now)
    \/ \E now \in Times : \E request \in WebhookRequests : api_webhook(request, now)

SpecLifecycle == InitLifecycle /\ [][NextLifecycle]_vars

----------------------------------------------------------------------------
(* Properties of api_send *)

Present(v) == v # Absent /\ v # ""

StepOf(op) == response'.op = op

(* C1: every api_send request whose JSON object carries a channel among    *)
(* whatsapp/sms/email and a non-empty recipient_contact and body appends   *)
(* exactly one message of the session's hub, in status sent with sent_at   *)
(* set, and is answered 200 with success, the new id and status sent.      *)
C1_ApiSendCreatesSentMessage ==
    [][ ( /\ StepOf("api_send")
          /\ response'.request.kind = "object"
          /\ response'.request.data.channel \in {"whatsapp", "sms", "email"}
          /\ Present(response'.request.data.recipient_contact)
          /\ Present(response'.request.data.body) )
        =>
        ( /\ Len(messages') = Len(messages) + 1
          /\ SubSeq(messages', 1, Len(messages)) = messages
          /\ messages'[Len(messages')].hub_id = response'.hub
          /\ messages'[Len(messages')].status = "sent"
          /\ messages'[Len(messages')].sent_at # NULL
          /\ response'.code = 200
          /\ response'.body.success = TRUE
          /\ response'.body.message_id = Len(messages')
          /\ response'.body.status = "sent" ) ]_vars

----------------------------------------------------------------------------
(* Properties of api_webhook *)

WebhookFields(request) ==
    /\ request.kind = "object"
    /\ Present(request.data.external_id)
    /\ Present(request.data.status)

(* The messages the default manager shows under an external_id.            *)
Live(external_id) ==
    {pk \in 1..Len(messages) :
        ~messages[pk].is_deleted /\ messages[pk].external_id = external_id}

Only(set) == CHOOSE x \in set : TRUE

C4_WebhookUnknownId ==
    [][ ( /\ StepOf("api_webhook")
          /\ WebhookFields(response'.request)
          /\ \A pk \in 1..Len(messages) :
                messages[pk].external_id # response'.request.data.external_id )
        =>
        ( response'.code = 404 /\ messages' = messages ) ]_vars

(* An unknown external_id arrived while a message with another was stored. *)
C4_Witness ==
    /\ response.op = "api_webhook"
    /\ response.code = 404
    /\ response.request.data.external_id = "Z"
    /\ \E pk \in 1..Len(messages) : messages[pk].external_id = "X"

C5_WitnessUnknown ==
    /\ response.op = "api_webhook"
    /\ response.code = 400
    /\ response.request.kind = "object"
    /\ response.request.data.status = Absent
    /\ response.request.data.external_id = "Z"

(* C6: a webhook that names the external_id of a stored (non-deleted)      *)
(* message and carries a status outside delivered/read/failed/sent is      *)
(* answered 200 with success true and leaves that message's status,        *)
(* sent_at, delivered_at, read_at and error_message as they were.          *)
C6_WebhookUnknownStatus ==
    [][ ( /\ StepOf("api_webhook")
          /\ WebhookFields(response'.request)
          /\ response'.request.data.status \notin {"delivered", "read", "failed", "sent"}
          /\ Cardinality(Live(response'.request.data.external_id)) = 1 )
        =>
        LET pk == Only(Live(response'.request.data.external_id))
        IN
        /\ response'.code = 200
        /\ response'.body.success = TRUE
        /\ messages'[pk].status = messages[pk].status
        /\ messages'[pk].sent_at = messages[pk].sent_at
        /\ messages'[pk].delivered_at = messages[pk].delivered_at
        /\ messages'[pk].read_at = messages[pk].read_at
        /\ messages'[pk].error_message = messages[pk].error_message ]_vars

(* An unknown status reached a message that was read and had timestamps.   *)
C6_Witness ==
    /\ response.op = "api_webhook"
    /\ response.code = 200
    /\ response.request.data.status = "bounced"
    /\ messages[response.body.message_id].status = "read"
    /\ messages[response.body.message_id].read_at # NULL

----------------------------------------------------------------------------
(* Properties of the campaign handlers *)

(* The campaign a start or cancel request reaches: stored, of the          *)
(* session's hub, not deleted.                                              *)
Reaches(table, request, hub) ==
    /\ request.pk \in 1..Len(table)
    /\ table[request.pk].hub_id = hub
    /\ ~table[request.pk].is_deleted

OthersUnchanged(old, new, pk) ==
    /\ Len(new) = Len(old)
    /\ \A k \in 1..Len(old) : k # pk => new[k] = old[k]

(* C7: campaign_start on a campaign in draft or scheduled sets status      *)
(* sending and a started_at; on a campaign in any other status it answers  *)
(* 200 and leaves status and started_at as they were.  No other campaign   *)
(* changes.                                                                 *)
C7_CampaignStartGuard ==
    [][ ( StepOf("campaign_start") /\ Reaches(campaigns, response'.request, response'.hub) )
        =>
        LET pk == response'.request.pk
        IN
        /\ response'.code = 200
        /\ OthersUnchanged(campaigns, campaigns', pk)
        /\ IF campaigns[pk].status \in {"draft", "scheduled"}
           THEN /\ campaigns'[pk].status = "sending"
                /\ campaigns'[pk].started_at # NULL
           ELSE /\ campaigns'[pk].status = campaigns[pk].status
                /\ campaigns'[pk].started_at = campaigns[pk].started_at ]_vars

(* A start request was refused on a campaign that had been started and     *)
(* then cancelled.                                                          *)
C7_Witness ==
    /\ response.op = "campaign_start"
    /\ response.code = 200
    /\ response.body.notice = "error"
    /\ campaigns[response.request.pk].status = "cancelled"
    /\ campaigns[response.request.pk].started_at # NULL

(* C8: campaign_cancel on a campaign in draft, scheduled or sending sets   *)
(* status cancelled; on a completed or cancelled campaign it answers 200   *)
(* and leaves the campaign as it was; and no handler step changes the      *)
(* status of a completed or cancelled campaign.                             *)
C8_CampaignCancelGuard ==
    [][ /\ ( StepOf("campaign_cancel") /\ Reaches(campaigns, response'.request, response'.hub) )
           =>
           LET pk == response'.request.pk
           IN
           /\ response'.code = 200
           /\ IF campaigns[pk].status \in {"draft", "scheduled", "sending"}
              THEN campaigns'[pk].status = "cancelled"
              ELSE campaigns'[pk] = campaigns[pk]
        /\ \A pk \in 1..Len(campaigns) :
              campaigns[pk].status \in {"completed", "cancelled"}
                 => campaigns'[pk].status = campaigns[pk].status ]_vars

(* A cancel request was refused on a completed campaign.                   *)
C8_Witness ==
    /\ response.op = "campaign_cancel"
    /\ response.code = 200
    /\ response.body.notice = "error"
    /\ campaigns[response.request.pk].status = "completed"

----------------------------------------------------------------------------
(* Properties of the template handlers *)

(* C9: no step of template_create, template_edit or template_delete        *)
(* deletes a system template or clears its is_system flag;                 *)
(* template_delete on a system template answers 200 and leaves it as it    *)
(* was; template_delete on a non-system template sets is_deleted.          *)
C9_SystemTemplateKept ==
    [][ /\ \A pk \in 1..Len(templates) :
              (templates[pk].is_system /\ ~templates[pk].is_deleted)
                 => /\ Len(templates') >= pk
                    /\ templates'[pk].is_system
                    /\ ~templates'[pk].is_deleted
        /\ ( StepOf("template_delete") /\ Reaches(templates, response'.request, response'.hub) )
           =>
           LET pk == response'.request.pk
           IN
           /\ response'.code = 200
           /\ IF templates[pk].is_system
              THEN templates' = templates
              ELSE templates'[pk].is_deleted = TRUE ]_vars

(* A delete request was refused on a system template that had been edited  *)
(* before.                                                                  *)
C9_Witness ==
    /\ response.op = "template_delete"
    /\ response.code = 200
    /\ response.body.notice = "error"
    /\ templates[response.request.pk].is_system
    /\ ~templates[response.request.pk].is_deleted
    /\ templates[response.request.pk].name = "Promo"

----------------------------------------------------------------------------
(* Properties of MessagingSettings.get_settings *)

(* The settings rows of a hub, logically deleted ones included.            *)
SettingsRows(table, hub) == {pk \in 1..Len(table) : table[pk].hub_id = hub}

(* C10: a handler step that calls get_settings(hub) answers 200 with a     *)
(* row of that hub; when the table held no row of the hub the row is new   *)
(* and, before any form is applied, carries the defaults; when it held one *)
(* the same row (same key) is returned and none is added; after the call   *)
(* the table holds exactly one row of the hub, deleted rows counted, and   *)
(* no row has been removed or moved to another hub.                        *)
C10_GetSettingsIdempotent ==
    [][ ( StepOf("settings_view") \/ StepOf("settings_save") )
        =>
        LET hub == response'.hub
            pk  == response'.body.settings
            old == SettingsRows(settings, hub)
        IN
        /\ response'.code = 200
        /\ SettingsRows(settings', hub) = {pk}
        /\ \A k \in 1..Len(settings) :
              k \in 1..Len(settings') /\ settings'[k].hub_id = settings[k].hub_id
        /\ IF old = {}
           THEN /\ Len(settings') = Len(settings) + 1
                /\ pk = Len(settings')
                /\ StepOf("settings_view") => settings'[pk] = MessagingSettings(hub)
           ELSE /\ old = {pk}
                /\ Len(settings') = Len(settings) ]_vars

(* A later call returned the row an earlier request had saved a port to,   *)
(* a row that is logically deleted, and it is the only row of its hub.     *)
C10_Witness ==
    /\ response.op = "settings_view"
    /\ response.code = 200
    /\ response.body.settings \in 1..Len(settings)
    /\ settings[response.body.settings].is_deleted
    /\ settings[response.body.settings].email_smtp_port = 25
    /\ SettingsRows(settings, response.hub) = {response.body.settings}

----------------------------------------------------------------------------
(* Properties of concurrent get_settings *)

(* C11: with get_settings calls of several requests interleaved, the table *)
(* never holds two rows of one hub; no call raises; a call that has        *)
(* returned holds the one row of its hub; and every call that has started  *)
(* returns.                                                                 *)
C11_ConcurrentGetSettings ==
    /\ [](/\ \A hub \in Hubs : Cardinality(SettingsRows(settings, hub)) <= 1
          /\ \A w \in Workers :
                /\ inflight[w].pc # "raised"
                /\ inflight[w].pc = "got"
                      => SettingsRows(settings, inflight[w].hub) = {inflight[w].pk}
          /\ response.op \in {"settings_view", "settings_save"} => response.code = 200)
    /\ \A w \in Workers : (inflight[w].pc = "get") ~> (inflight[w].pc = "got")

(* Two calls for a hub without a row raced: the create of this one was     *)
(* refused by the unique constraint and it returned the other's row.       *)
C11_Witness ==
    \E w \in Workers :
        /\ inflight[w].pc = "got"
        /\ inflight[w].caught
        /\ SettingsRows(settings, inflight[w].hub) = {inflight[w].pk}

----------------------------------------------------------------------------
(* Properties of the message lifecycle under the handlers *)

(* C12: no handler step moves a message backward along queued, sent,       *)
(* delivered, read: a read message does not become delivered or sent, a    *)
(* delivered message does not become sent.                                  *)
C12_StatusNeverBackward ==
    [][ \A pk \in 1..Len(messages) :
           /\ messages[pk].status = "read"
                 => messages'[pk].status \notin {"delivered", "sent"}
           /\ messages[pk].status = "delivered"
                 => messages'[pk].status # "sent" ]_vars

(* C19: no handler step changes the status of a failed message.            *)
C19_FailedIsTerminal ==
    [][ \A pk \in 1..Len(messages) :
           messages[pk].status = "failed" => messages'[pk].status = "failed" ]_vars

----------------------------------------------------------------------------
(* Properties of the mark operations *)

(* C13: whatever the status of the message, mark_sent leaves it sent with  *)
(* sent_at set, mark_delivered delivered with delivered_at set, mark_read  *)
(* read with read_at set, and mark_failed(e) failed with error_message e.  *)
C13_MarkUnconditional ==
    [][ LET pk == response'.request.pk
        IN
        /\ StepOf("mark_sent")
              => messages'[pk].status = "sent" /\ messages'[pk].sent_at # NULL
        /\ StepOf("mark_delivered")
              => messages'[pk].status = "delivered" /\ messages'[pk].delivered_at # NULL
        /\ StepOf("mark_read")
              => messages'[pk].status = "read" /\ messages'[pk].read_at # NULL
        /\ StepOf("mark_failed")
              => /\ messages'[pk].status = "failed"
                 /\ messages'[pk].error_message = response'.request.error ]_vars

(* mark_read was called on a message that had failed and had never been    *)
(* sent or delivered.                                                       *)
C13_Witness ==
    /\ response.op = "mark_read"
    /\ messages[response.request.pk].status = "read"
    /\ messages[response.request.pk].error_message = "E"
    /\ messages[response.request.pk].sent_at = NULL
    /\ messages[response.request.pk].delivered_at = NULL

(* The columns a mark operation writes. *)
UpdateFields(op) ==
    CASE op = "mark_sent" -> mark_sent_fields
      [] op = "mark_delivered" -> mark_delivered_fields
      [] op = "mark_read" -> mark_read_fields
      [] op = "mark_failed" -> mark_failed_fields

(* C20: a mark operation changes, in the stored row, only status and its   *)
(* own column (sent_at, delivered_at, read_at or error_message); every     *)
(* other column keeps the value the row had, also when the instance the    *)
(* call was made on carries other values.                                  *)
C20_MarkWritesOwnFields ==
    [][ \A op \in {"mark_sent", "mark_delivered", "mark_read", "mark_failed"} :
           StepOf(op) =>
              LET pk == response'.request.pk
              IN
              /\ Len(messages') = Len(messages)
              /\ \A f \in DOMAIN messages[pk] \ UpdateFields(op) :
                    messages'[pk][f] = messages[pk][f] ]_vars

(* mark_delivered was called on an instance loaded before the message      *)
(* failed: the row keeps the error the instance never saw.                 *)
C20_Witness ==
    /\ response.op = "mark_delivered"
    /\ response.request.fresh = FALSE
    /\ messages[response.request.pk].status = "delivered"
    /\ messages[response.request.pk].error_message = "E"
    /\ inflight[Caller].instance.error_message = ""

----------------------------------------------------------------------------
(* Properties of delete() *)

(* What delete() leaves of row pk of a table that was old and is new: the  *)
(* row is flagged, hidden from objects, shown by all_objects, no row is    *)
(* removed and no other column of the row changes.                         *)
SoftDeleted(old, new, pk) ==
    /\ new[pk].is_deleted = TRUE
    /\ pk \notin objects(new)
    /\ pk \in all_objects(new)
    /\ Len(new) = Len(old)
    /\ \A f \in DOMAIN old[pk] \ {"is_deleted"} : new[pk][f] = old[pk][f]

(* C14: after delete() on a template, message or campaign the record has   *)
(* is_deleted true, is absent from objects and present in all_objects; no  *)
(* row is physically removed.                                               *)
C14_DeleteIsLogical ==
    [][ StepOf("delete") =>
          LET pk == response'.request.pk
              table == response'.request.table
          IN
          /\ table = "messages" => SoftDeleted(messages, messages', pk)
          /\ table = "templates" => SoftDeleted(templates, templates', pk)
          /\ table = "campaigns" => SoftDeleted(campaigns, campaigns', pk)
          /\ Len(messages') = Len(messages)
          /\ Len(templates') = Len(templates)
          /\ Len(campaigns') = Len(campaigns) ]_vars

(* All three records have been deleted and all three are still stored.     *)
C14_Witness ==
    /\ response.op = "delete"
    /\ objects(messages) = {} /\ all_objects(messages) = {1}
    /\ objects(templates) = {} /\ all_objects(templates) = {1}
    /\ objects(campaigns) = {} /\ all_objects(campaigns) = {1}

----------------------------------------------------------------------------
(* Properties of the id-addressed handlers *)

(* C15: message_detail, campaign_detail, template_edit, template_delete,   *)
(* campaign_start and campaign_cancel, asked by a session of hub T for an  *)
(* id that is unknown, of another hub, or logically deleted, answer 404    *)
(* and change no record.                                                    *)
C15_NotFound ==
    [][ LET request == response'.request
            hub == response'.hub
        IN
        ( \/ StepOf("message_detail") /\ ~Reaches(messages, request, hub)
          \/ /\ StepOf("template_edit") \/ StepOf("template_delete")
             /\ ~Reaches(templates, request, hub)
          \/ /\ StepOf("campaign_detail") \/ StepOf("campaign_start")
                   \/ StepOf("campaign_cancel")
             /\ ~Reaches(campaigns, request, hub) )
        =>
        /\ response'.code = 404
        /\ UNCHANGED <<messages, templates, campaigns, settings>> ]_vars

(* A session of hub h2 asked to start a stored, draft campaign of hub h1.  *)
C15_Witness ==
    /\ response.op = "campaign_start"
    /\ response.hub = "h2"
    /\ response.code = 404
    /\ response.request.pk = 1
    /\ campaigns[1].hub_id = "h1"
    /\ campaigns[1].status = "draft"
    /\ ~campaigns[1].is_deleted

----------------------------------------------------------------------------
(* Properties of render_body and render_subject *)

(* The positions at which pattern occurs in text. *)
Occurrences(text, pattern) ==
    {i \in 1..(Len(text) + 1) :
        /\ i + Len(pattern) - 1 <= Len(text)
        /\ SubSeq(text, i, i + Len(pattern) - 1) = pattern}

Contains(text, pattern) == Occurrences(text, pattern) # {}

ContextKeys(context) == {context.items[i].key : i \in DOMAIN context.items}

(* The stored text a render call works on. *)
StoredText(op, pk) == IF op = "render_body" THEN templates[pk].body ELSE templates[pk].subject

(* C16: render_body and render_subject return the stored text unchanged    *)
(* when the context is None or empty; with a non-empty context every       *)
(* placeholder {{k}} whose key is not in the context stands in the result  *)
(* wherever it stood in the text (none of its occurrences is lost).        *)
C16_RenderKeepsUnknown ==
    [][ \A op \in {"render_body", "render_subject"} :
           StepOf(op) =>
              LET context == response'.request.context
                  text == StoredText(op, response'.request.pk)
                  result == response'.body.result
              IN
              IF context.is_none \/ context.items = <<>>
              THEN result = text
              ELSE \A k \in Keys \ ContextKeys(context) :
                      Cardinality(Occurrences(result, placeholder(k)))
                         >= Cardinality(Occurrences(text, placeholder(k))) ]_vars

(* A body with {{x}} and {{y}} was rendered with a context that has x      *)
(* only: {{x}} is gone, {{y}} stands.                                       *)
C16_Witness ==
    /\ response.op = "render_body"
    /\ templates[response.request.pk].body = placeholder(KeyX) \o placeholder(KeyY)
    /\ response.request.context = Dict(<<[key |-> KeyX, value |-> PyInt(7)]>>)
    /\ response.body.result = <<"7">> \o placeholder(KeyY)

(* A render_body call of "Hi {{x}}" with the context {x: v}. *)
HiX(request) ==
    /\ templates[request.pk].body = Hi \o placeholder(KeyX)
    /\ ~request.context.is_none
    /\ Len(request.context.items) = 1
    /\ request.context.items[1].key = KeyX

(* C17 as stated: for every scalar v, rendering "Hi {{x}}" with {x: v}     *)
(* gives a text that contains str(v) and does not contain "{{x}}".         *)
C17_RenderReplacesAnyValue ==
    [][ ( StepOf("render_body") /\ HiX(response'.request) )
        =>
        LET v == response'.request.context.items[1].value
        IN
        /\ Contains(response'.body.result, str(v))
        /\ ~Contains(response'.body.result, placeholder(KeyX)) ]_vars

(* C17 amended: for every scalar v whose text str(v) does not contain      *)
(* "{{x}}", rendering "Hi {{x}}" with {x: v} gives a text that contains    *)
(* str(v) and does not contain "{{x}}".                                     *)
C17_RenderReplacesValue ==
    [][ ( /\ StepOf("render_body")
          /\ HiX(response'.request)
          /\ ~Contains(str(response'.request.context.items[1].value), placeholder(KeyX)) )
        =>
        LET v == response'.request.context.items[1].value
        IN
        /\ Contains(response'.body.result, str(v))
        /\ ~Contains(response'.body.result, placeholder(KeyX)) ]_vars

(* "Hi {{x}}" was rendered with {x: 42} to "Hi 42". *)
C17_Witness ==
    /\ response.op = "render_body"
    /\ HiX(response.request)
    /\ response.request.context.items[1].value = PyInt(42)
    /\ response.body.result = Hi \o <<"4", "2">>

----------------------------------------------------------------------------
(* Properties of the campaign percentages *)

(* tenths is part / whole as a percentage rounded to one decimal: no tenth *)
(* is nearer to 1000 * part / whole.                                        *)
NearestTenth(tenths, part, whole) ==
    /\ 2 * whole * tenths <= 2000 * part + whole
    /\ 2000 * part <= 2 * whole * tenths + whole

(* C18: delivery_rate is 0 when sent_count is 0 and otherwise              *)
(* delivered_count / sent_count * 100 rounded to one decimal;              *)
(* progress_percent is 0 when total_recipients is 0 and otherwise          *)
(* sent_count / total_recipients * 100 rounded to one decimal; 20 of 25    *)
(* gives 80.0 and 25 of 50 gives 50.0.                                      *)
C18_PercentagesGuarded ==
    [][ LET campaign == campaigns[response'.request.pk]
            result == response'.body.result
        IN
        /\ StepOf("delivery_rate") =>
              /\ campaign.sent_count = 0 => result = 0
              /\ campaign.sent_count # 0
                    => NearestTenth(result, campaign.delivered_count, campaign.sent_count)
              /\ (campaign.sent_count = 25 /\ campaign.delivered_count = 20) => result = 800
        /\ StepOf("progress_percent") =>
              /\ campaign.total_recipients = 0 => result = 0
              /\ campaign.total_recipients # 0
                    => NearestTenth(result, campaign.sent_count, campaign.total_recipients)
              /\ (campaign.total_recipients = 50 /\ campaign.sent_count = 25)
                    => result = 500 ]_vars

(* delivery_rate of a campaign with deliveries counted and nothing sent.   *)
C18_Witness ==
    /\ response.op = "delivery_rate"
    /\ campaigns[response.request.pk].sent_count = 0
    /\ campaigns[response.request.pk].delivered_count = 20
    /\ response.body.result = 0

----------------------------------------------------------------------------
(* Properties of the campaign state machine *)

(* The edges of the state machine as section 4.3 of the specification      *)
(* draws them.                                                              *)
DrawnEdges ==
    {<<"draft", "scheduled">>, <<"scheduled", "sending">>, <<"draft", "sending">>,
     <<"sending", "completed">>, <<"sending", "cancelled">>}

(* The edges cancel() adds under its handler's guard.                      *)
CancelEdges == {<<"draft", "cancelled">>, <<"scheduled", "cancelled">>}

(* Every step creates campaigns in draft and moves the status of a stored  *)
(* campaign, if at all, along one of the edges.                            *)
FollowsEdges(edges) ==
    /\ Len(campaigns') >= Len(campaigns)
    /\ \A pk \in 1..Len(campaigns') :
          IF pk > Len(campaigns)
          THEN campaigns'[pk].status = "draft"
          ELSE \/ campaigns'[pk].status = campaigns[pk].status
               \/ <<campaigns[pk].status, campaigns'[pk].status>> \in edges

(* C21 as stated: every status change made by campaign_create,             *)
(* campaign_start or campaign_cancel follows an edge of draft ->           *)
(* scheduled -> sending -> {completed, cancelled} or draft -> sending, so  *)
(* cancelled is entered only from sending.                                  *)
C21_StatusFollowsDrawnEdges == [][FollowsEdges(DrawnEdges)]_vars

(* C21: every status change made by campaign_create, campaign_start or     *)
(* campaign_cancel follows an edge of draft -> scheduled -> sending ->     *)
(* {completed, cancelled}, draft -> sending, draft -> cancelled or         *)
(* scheduled -> cancelled; cancelled is entered only from draft,           *)
(* scheduled or sending.                                                    *)
C21_StatusFollowsEdges == [][FollowsEdges(DrawnEdges \cup CancelEdges)]_vars

(* A cancel request was accepted on a campaign that was never started.     *)
C21_Witness ==
    /\ response.op = "campaign_cancel"
    /\ response.body.notice = "success"
    /\ campaigns[response.request.pk].status = "cancelled"
    /\ campaigns[response.request.pk].started_at = NULL

----------------------------------------------------------------------------
(* Properties of the webhook's lookup *)

(* C22: a webhook whose external_id two or more non-deleted messages       *)
(* share, with a status of delivered, read, failed or sent, is answered    *)
(* 200 and leaves one of the matching messages (the first match) in that   *)
(* status; it does not fail.                                                *)
C22_DuplicateFirstMatch ==
    [][ ( /\ StepOf("api_webhook")
          /\ WebhookFields(response'.request)
          /\ response'.request.data.status \in {"delivered", "read", "failed", "sent"}
          /\ Cardinality(Live(response'.request.data.external_id)) > 1 )
        =>
        /\ response'.code = 200
        /\ response'.body.message_id \in Live(response'.request.data.external_id)
        /\ messages'[response'.body.message_id].status = response'.request.data.status ]_vars

----------------------------------------------------------------------------
(* Properties of tenant scoping *)

(* The rows of a table a step has written, a row it appended included.     *)
Written(old, new) ==
    {pk \in 1..Len(new) : pk > Len(old) \/ new[pk] # old[pk]}

(* C23: every handler's queries filter by the hub of its request, the      *)
(* webhook's lookup by external_id included: no handler step writes a row  *)
(* of a hub other than the one its request is scoped to.                    *)
C23_TenantScoped ==
    [][ /\ \A pk \in Written(messages, messages') : messages'[pk].hub_id = response'.hub
        /\ \A pk \in Written(templates, templates') : templates'[pk].hub_id = response'.hub
        /\ \A pk \in Written(campaigns, campaigns') : campaigns'[pk].hub_id = response'.hub
        /\ \A pk \in Written(settings, settings') : settings'[pk].hub_id = response'.hub ]_vars

----------------------------------------------------------------------------
(* Properties of rendering against a single pass *)

(* The items whose placeholder starts the text. *)
Starting(text, items) ==
    {i \in 1..Len(items) :
        LET old == placeholder(items[i].key)
        IN Len(text) >= Len(old) /\ SubSeq(text, 1, Len(old)) = old}

(* One pass over the text, left to right: a placeholder of the context is  *)
(* replaced by its value's text and the pass goes on after it, so text it  *)
(* has written is not read again.                                          *)
RECURSIVE SinglePass(_, _)
SinglePass(text, items) ==
    IF text = <<>>
    THEN <<>>
    ELSE IF Starting(text, items) # {}
    THEN LET item == items[CHOOSE i \in Starting(text, items) : TRUE]
         IN str(item.value)
              \o SinglePass(SubSeq(text, Len(placeholder(item.key)) + 1, Len(text)), items)
    ELSE <<Head(text)>> \o SinglePass(Tail(text), items)

Reversed(items) == [i \in 1..Len(items) |-> items[Len(items) + 1 - i]]

(* C24: for every body and every context, render_body returns what one     *)
(* pass over the original body returns that replaces each {{key}} by       *)
(* str(context[key]); the result is the same for the context iterated in   *)
(* the opposite order.                                                      *)
C24_RenderIsSinglePass ==
    [][ ( StepOf("render_body") /\ ~response'.request.context.is_none )
        =>
        LET self == templates[response'.request.pk]
            items == response'.request.context.items
        IN
        /\ response'.body.result = SinglePass(self.body, items)
        /\ response'.body.result = render_body(self, Dict(Reversed(items))) ]_vars

----------------------------------------------------------------------------
(* Properties of the lifecycle of created messages *)

(* C25: every message api_send or the compose handler has created has an   *)
(* empty external_id and status sent, in every reachable state; and a      *)
(* webhook with an empty external_id is answered 400 and changes nothing.  *)
(* So no sequence of handler requests moves a created message to           *)
(* delivered, read or failed.                                               *)
C25_CreatedStaysSent ==
    /\ [](\A pk \in 1..Len(messages) :
             messages[pk].external_id = "" /\ messages[pk].status = "sent")
    /\ [][ ( /\ StepOf("api_webhook")
             /\ response'.request.kind = "object"
             /\ response'.request.data.external_id = "" )
           => ( response'.code = 400 /\ messages' = messages ) ]_vars

(* A webhook reporting delivery under an empty external_id arrived after a *)
(* message had been created, and was refused.                               *)
C25_Witness ==
    /\ response.op = "api_webhook"
    /\ response.code = 400
    /\ response.request.kind = "object"
    /\ response.request.data.external_id = ""
    /\ response.request.data.status = "delivered"
    /\ Len(messages) >= 1
    /\ messages[1].status = "sent"

----------------------------------------------------------------------------
(* Properties of the timestamps under the mark operations *)

TimestampOf(status) ==
    CASE status = "sent" -> "sent_at"
      [] status = "delivered" -> "delivered_at"
      [] status = "read" -> "read_at"

(* C26: for a message created queued with null timestamps and changed only *)
(* by mark operations, in every reachable state a sent message has a       *)
(* sent_at, a delivered message a delivered_at and a read message a        *)
(* read_at; and no step makes a timestamp null that was not null.          *)
C26_TimestampsFollowStatus ==
    /\ [](\A pk \in 1..Len(messages) :
             messages[pk].status \in {"sent", "delivered", "read"}
                => messages[pk][TimestampOf(messages[pk].status)] # NULL)
    /\ [][ \A pk \in 1..Len(messages) :
              \A column \in {"sent_at", "delivered_at", "read_at"} :
                 messages[pk][column] # NULL => messages'[pk][column] # NULL ]_vars

(* A held instance, loaded before the message was marked delivered, was    *)
(* marked read: the row is read with its delivered_at kept and no sent_at. *)
C26_Witness ==
    /\ response.op = "mark_read"
    /\ ~response.request.fresh
    /\ messages[response.request.pk].status = "read"
    /\ messages[response.request.pk].read_at # NULL
    /\ messages[response.request.pk].delivered_at # NULL
    /\ messages[response.request.pk].sent_at = NULL
    /\ inflight[Caller].instance.delivered_at = NULL

----------------------------------------------------------------------------
(* Properties of campaigns created through campaign_create *)

(* C27: a campaign stored by campaign_create is, in every reachable state  *)
(* of the handlers, in draft, sending or cancelled, never scheduled or     *)
(* completed; a sending campaign has a started_at; and no step completes a *)
(* sending campaign.                                                        *)
C27_CreatedCampaignStatuses ==
    /\ [](\A pk \in 1..Len(campaigns) :
             /\ campaigns[pk].status \in {"draft", "sending", "cancelled"}
             /\ campaigns[pk].status = "sending" => campaigns[pk].started_at # NULL)
    /\ [][ \A pk \in 1..Len(campaigns) :
              campaigns[pk].status = "sending" => campaigns'[pk].status # "completed" ]_vars

(* A campaign created with a scheduled_at was started: it went from draft  *)
(* to sending without ever being scheduled.                                 *)
C27_Witness ==
    /\ response.op = "campaign_start"
    /\ response.body.notice = "success"
    /\ campaigns[response.request.pk].status = "sending"
    /\ campaigns[response.request.pk].scheduled_at # NULL
    /\ campaigns[response.request.pk].started_at # NULL

----------------------------------------------------------------------------
(* Properties of concurrent campaign_start and campaign_cancel *)

(* Worker w's step is the save() of start() on campaign pk. *)
StartWritten(w, pk) ==
    /\ inflight[w].pc = "loaded"
    /\ inflight'[w].pc = "idle"
    /\ inflight[w].op = "campaign_start"
    /\ inflight[w].pk = pk
    /\ response'.body.notice = "success"

(* C28: under every interleaving of concurrent campaign_start and          *)
(* campaign_cancel requests on a campaign, no step moves a stored status   *)
(* from cancelled to sending, and no step writes started_at on a campaign  *)
(* that has one.                                                            *)
C28_ConcurrentStartCancel ==
    [][ \A pk \in 1..Len(campaigns) :
           /\ campaigns[pk].status = "cancelled" => campaigns'[pk].status # "sending"
           /\ \A w \in Workers :
                 StartWritten(w, pk) => campaigns[pk].started_at = NULL ]_vars

----------------------------------------------------------------------------
(* Properties of concurrent webhooks *)

Timestamps == {"sent_at", "delivered_at", "read_at"}

(* Worker w's step is the save() of its mark operation. *)
MarkWritten(w) == inflight[w].pc = "loaded" /\ inflight'[w].pc = "saved"

(* C29: when webhooks for one message interleave, each having loaded its   *)
(* own copy, the save of a delivered or a read webhook leaves the row      *)
(* in its status with its timestamp set and every other timestamp of the   *)
(* row as it was, however old the copy: no timestamp another request wrote *)
(* is lost, and the stored status is the one written last.                 *)
C29_NoLostTimestamp ==
    [][ \A w \in Workers :
           ( /\ MarkWritten(w)
             /\ inflight[w].request.data.status \in {"delivered", "read"} )
           =>
           LET pk == inflight[w].pk
               status == inflight[w].request.data.status
           IN
           /\ messages'[pk].status = status
           /\ messages'[pk][TimestampOf(status)] # NULL
           /\ \A column \in Timestamps \ {TimestampOf(status)} :
                 messages'[pk][column] = messages[pk][column] ]_vars

(* A read webhook and a delivered webhook had both loaded the message      *)
(* before either wrote; delivered was saved and answered, then read was    *)
(* saved from its old copy: the row is read and has both timestamps, the   *)
(* copy has no delivered_at.                                                *)
C29_Witness ==
    \E w \in Workers :
        /\ inflight[w].pc = "saved"
        /\ inflight[w].request.data.status = "read"
        /\ inflight[w].instance.delivered_at = NULL
        /\ messages[inflight[w].pk].status = "read"
        /\ messages[inflight[w].pk].delivered_at # NULL
        /\ messages[inflight[w].pk].read_at # NULL
        /\ response.op = "api_webhook"
        /\ response.code = 200
        /\ response.request.data.status = "delivered"

----------------------------------------------------------------------------
(* Properties of deleted records under the handlers *)

(* No row of the table that is deleted is changed by the step. *)
DeletedKept(old, new) ==
    \A pk \in 1..Len(old) : old[pk].is_deleted => new[pk] = old[pk]

(* The table an id-addressed handler looks its key up in. *)
TableOf(op) ==
    CASE op = "message_detail" -> messages
      [] op \in {"template_edit", "template_delete"} -> templates
      [] op \in {"campaign_detail", "campaign_start", "campaign_cancel"} -> campaigns

ByIdOps ==
    {"message_detail", "template_edit", "template_delete",
     "campaign_detail", "campaign_start", "campaign_cancel"}

(* The keys an answer lists under a name, none when it has no such list. *)
ListedUnder(body, name) == IF name \in DOMAIN body THEN body[name] ELSE {}

(* C30: once a template, campaign or message is deleted, no step changes   *)
(* any of its fields or clears is_deleted; an id-addressed handler         *)
(* (template_edit, template_delete, campaign_start, campaign_cancel, the   *)
(* detail handlers) answers 404 for it, the webhook answers 404 for its    *)
(* external_id, and no handler's list shows it.                             *)
C30_DeletedStaysDeleted ==
    [][ /\ DeletedKept(messages, messages')
        /\ DeletedKept(templates, templates')
        /\ DeletedKept(campaigns, campaigns')
        /\ ( /\ response'.op \in ByIdOps
             /\ response'.request.pk \in 1..Len(TableOf(response'.op))
             /\ TableOf(response'.op)[response'.request.pk].is_deleted )
           => response'.code = 404
        /\ ( /\ StepOf("api_webhook")
             /\ WebhookFields(response'.request)
             /\ \A pk \in 1..Len(messages) :
                   messages[pk].external_id = response'.request.data.external_id
                      => messages[pk].is_deleted )
           => response'.code = 404
        /\ \A pk \in ListedUnder(response'.body, "messages_list") : ~messages'[pk].is_deleted
        /\ \A pk \in ListedUnder(response'.body, "templates") : ~templates'[pk].is_deleted
        /\ \A pk \in ListedUnder(response'.body, "campaigns") : ~campaigns'[pk].is_deleted ]_vars

(* A webhook named the external_id of a message that had been deleted and  *)
(* was answered 404.                                                        *)
C30_Witness ==
    /\ response.op = "api_webhook"
    /\ response.code = 404
    /\ response.request.data.external_id = "X"
    /\ messages[1].external_id = "X"
    /\ messages[1].is_deleted
    /\ messages[1].status = "sent"

====
